---- MODULE Spec2Model ----
(***************************************************************************)
(* tinyauth: a Next.js application with a NextAuth route handler, deployed *)
(* as a Cloudflare Worker through the OpenNext Cloudflare adapter.         *)
(*                                                                         *)
(* The repository holds two configuration modules (open-next.config.ts,    *)
(* next.config.ts) and the deployment guides docs/deploy.md and deploy.md, *)
(* whose listings give the route handler, package.json scripts, the        *)
(* wrangler.toml descriptor, the GitHub Actions workflow and the           *)
(* provisioning steps.  The model has one specification per concern:       *)
(*   SpecConfig    evaluation of the two configuration modules             *)
(*   SpecRoute     the auth route handler serving requests                 *)
(*   Spec          an operator following docs/deploy.md step by step       *)
(*   SpecTrouble   deploy, provisioning and troubleshooting operations on  *)
(*                 a project in any condition                              *)
(*   SpecCallback  OAuth callback registration in either guide             *)
(*   SpecHealth    the health-check script check-worker.sh                 *)
(* FairSpec is Spec with commands that run to their end.                   *)
(***************************************************************************)
EXTENDS Integers, Sequences, FiniteSets, TLC

VARIABLES
  \* ---- configuration modules
  adapterRest,   \* fields of defineCloudflareConfig's result the adapter chooses
  config,        \* default export of open-next.config.ts once evaluated
  configLoaded,  \* open-next.config.ts has been evaluated
  processEnvCI,  \* process.env.CI where next.config.ts is evaluated
  dirname,       \* __dirname of next.config.ts
  nextConfigFile,   \* the next.config.ts on disk: the repository's or the guide's
  nextConfig,       \* default export of next.config.ts once evaluated
  nextConfigLoaded, \* next.config.ts has been evaluated
  \* ---- route handler
  env,           \* process.env of the Worker: variable name -> value or Undefined
  routeLoaded,   \* route.ts has been evaluated
  options,       \* the options object handed to NextAuth(...)
  incoming,      \* the request the Worker runtime routed to route.ts
  nextAuthReq,   \* the request NextAuth received
  nextAuthResp,  \* the response NextAuth produced
  outgoing,      \* the response the route returned to the runtime
  \* ---- the project and the Cloudflare / GitHub accounts
  project,       \* files of the project written so far
  openNextFile,  \* which open-next.config.ts is on disk: "none", "r2" or "dummy"
  descriptor,    \* wrangler.toml
  secrets,       \* production secrets set with `wrangler secret put`
  devVars,       \* .dev.vars: variable name -> value, Undefined when absent
  buckets,       \* R2 buckets of the account
  ghSecrets,     \* GitHub Actions repository secrets
  lastProvision, \* the provisioning step performed last
  \* ---- command execution
  stack,         \* command lines being executed, innermost last
  ret,           \* result of the command that finished last: "none", "ok", "fail"
  host,          \* machine the commands run on: "local" or "ci"
  entered,       \* script name -> times entered since the top-level command began
  files,         \* host -> build outputs present on it
  versions,      \* Worker versions deployed, oldest first
  lastDeploy,    \* what the last deploy command saw and did
  \* ---- the operator and GitHub
  pc,            \* the operator's position in docs/deploy.md
  pushLog,       \* branches pushed to GitHub, oldest first
  runs,          \* workflow runs, oldest first
  \* ---- OAuth
  registered,    \* callback URLs registered with the OAuth providers
  guide,         \* the guide whose values are used: "docs" or "earlier"
  lastSignIn,    \* the last sign-in attempt and whether the provider accepted it
  \* ---- check-worker.sh
  hcPc,          \* the command of check-worker.sh to run next
  STATUS,        \* shell variable STATUS
  RESPONSE_TIME, \* shell variable RESPONSE_TIME
  PROVIDERS,     \* the words held by shell variable PROVIDERS
  checksRun,     \* the curl commands run so far
  output,        \* lines written to standard output
  lastStatus,    \* $?, the exit status of the last command
  exitStatus     \* exit status of the script, -1 while it runs

nextVars   == <<processEnvCI, dirname, nextConfigFile, nextConfig, nextConfigLoaded>>
configVars == <<adapterRest, config, configLoaded, nextVars>>
routeVars  == <<env, routeLoaded, options, incoming, nextAuthReq, nextAuthResp, outgoing>>
projVars   == <<project, openNextFile, descriptor, secrets, devVars, buckets,
                ghSecrets, lastProvision, registered>>
execVars   == <<stack, ret, host, entered>>
siteVars   == <<files, versions, lastDeploy>>
guideVars  == <<pc, pushLog, runs>>
cbVars     == <<guide, lastSignIn>>
healthVars == <<hcPc, STATUS, RESPONSE_TIME, PROVIDERS, checksRun, output,
                lastStatus, exitStatus>>
vars == <<configVars, routeVars, projVars, execVars, siteVars, guideVars, cbVars,
          healthVars>>

(***************************************************************************)
(* Bounds                                                                  *)
(***************************************************************************)
NumValues == 2   \* distinct opaque values a field or a secret may take
MaxDepth == 6    \* deepest nesting of commands explored
MaxPushes == 2   \* pushes to GitHub explored
MaxVersions == 2 \* deployments explored while troubleshooting

Values == {"v1", "v2", "v3", "v4"}
ValueOf(i) == CASE i = 1 -> "v1" [] i = 2 -> "v2" [] i = 3 -> "v3" [] OTHER -> "v4"
OpaqueValues == {ValueOf(i) : i \in 1..NumValues}

(***************************************************************************)
(* open-next.config.ts                                                     *)
(***************************************************************************)
R2IncrementalCache == "r2IncrementalCache"
DummyCache == "dummy"

\* Fields of an OpenNext configuration other than the cache selector.
AdapterFields == {"default", "middleware", "edgeExternals", "buildCommand"}

\* What defineCloudflareConfig may put in the fields it owns: any subset of
\* them, each with any value.
AdapterResults ==
  UNION {[S -> OpaqueValues] : S \in SUBSET AdapterFields}

\* defineCloudflareConfig(opts): the adapter's configuration, whose cache
\* selector is the one passed in ("dummy" when none is passed).
DefineCloudflareConfig(opts) ==
  ("incrementalCache" :>
      (IF "incrementalCache" \in DOMAIN opts
         THEN opts["incrementalCache"] ELSE DummyCache)) @@ adapterRest

\* Object literal in which the keys written first win.
SpreadFirstWins(base, later) == base @@ later

\* Object literal with a spread: { ...base, k1: v1, ... }.  Later keys win.
SpreadThen(base, later) == later @@ base

\* The package manager's build script, which is what OpenNext runs by default.
BuildCommandDefault == "npm run build"

BuildCommand == "npm run build-local"

\* The configuration with the cache switched off, as in
\* defineCloudflareConfig({ incrementalCache: "dummy" }).
OpenNextConfigDummy ==
  SpreadThen(DefineCloudflareConfig("incrementalCache" :> DummyCache),
             "buildCommand" :> BuildCommand)

OpenNextConfig ==
  SpreadThen(DefineCloudflareConfig("incrementalCache" :> R2IncrementalCache),
             "buildCommand" :> BuildCommand)

InitConfig ==
  /\ adapterRest \in AdapterResults
  /\ config = <<>>
  /\ configLoaded = FALSE

LoadOpenNextConfig ==
  /\ ~configLoaded
  /\ config' = OpenNextConfig
  /\ configLoaded' = TRUE
  /\ UNCHANGED <<adapterRest, nextVars>>

(***************************************************************************)
(* next.config.ts                                                          *)
(***************************************************************************)
\* JavaScript values: undefined, a string, an object.
JsUndefined == [t |-> "undefined"]
JsString(str) == [t |-> "string", s |-> str]
JsObject(obj) == [t |-> "object", o |-> obj]

\* Values of process.env.CI: unset, or any string.
CIStrings == {"", "true", "false", "0", "1"}
CIValues == {JsUndefined} \cup {JsString(str) : str \in CIStrings}

\* Directories the project may be checked out in.
Dirnames == {"/opt/buildhome/repo", "/home/dev/tinyauth"}

\* Truthiness that reads the variable as a flag: "false" and "0" are off.
TruthyAsFlag(v) ==
  CASE v.t = "undefined" -> FALSE
    [] v.t = "string" -> v.s \notin {"", "false", "0"}
    [] OTHER -> TRUE

\* ToBoolean: undefined and the empty string are falsy, every other string
\* and every object is truthy.
Truthy(v) ==
  CASE v.t = "undefined" -> FALSE
    [] v.t = "string" -> v.s # ""
    [] OTHER -> TRUE

\* a && b
JsAnd(a, b) == IF Truthy(a) THEN b ELSE a

\* The own enumerable properties an object spread ...v copies: none of
\* undefined, the indexed characters of a string, the properties of an object.
OwnProps(v) ==
  CASE v.t = "undefined" -> <<>>
    [] v.t = "string" -> [k \in {ToString(i) : i \in 0..(Len(v.s) - 1)} |-> "char"]
    [] OTHER -> v.o

\* A configuration whose tracing root is fixed when CI is set.
NextConfigRootFromCI(ci, dir) ==
  SpreadThen("outputFileTracingRoot" :> (IF Truthy(ci) THEN "/opt/buildhome/repo" ELSE dir),
             OwnProps(JsAnd(ci, JsObject("telemetry" :> [enabled |-> FALSE]))))

\* next.config.ts of the repository.
NextConfig(ci, dir) ==
  SpreadThen("outputFileTracingRoot" :> dir,
             OwnProps(JsAnd(ci, JsObject("telemetry" :> [enabled |-> FALSE]))))

\* next.config.ts as listed in the guide, Step 3.5.
NextConfigGuide(dir) == "outputFileTracingRoot" :> dir

InitNextConfig ==
  /\ processEnvCI \in CIValues
  /\ dirname \in Dirnames
  /\ nextConfigFile \in {"repo", "guide"}
  /\ nextConfig = <<>>
  /\ nextConfigLoaded = FALSE

LoadNextConfig ==
  /\ ~nextConfigLoaded
  /\ nextConfig' = IF nextConfigFile = "repo"
                     THEN NextConfig(processEnvCI, dirname)
                     ELSE NextConfigGuide(dirname)
  /\ nextConfigLoaded' = TRUE
  /\ UNCHANGED <<adapterRest, config, configLoaded, processEnvCI, dirname,
                 nextConfigFile>>

(***************************************************************************)
(* app/api/auth/[...nextauth]/route.ts                                     *)
(***************************************************************************)
Undefined == "undefined"

EnvVars == {"GITHUB_ID", "GITHUB_SECRET", "GOOGLE_ID", "GOOGLE_SECRET",
            "NEXTAUTH_SECRET", "NEXTAUTH_URL"}

Methods == {"GET", "POST", "DELETE"}
Paths == {"providers", "signin", "session"}
Bodies == {"", "csrf"}
Requests == [method : Methods, path : Paths, body : Bodies]

NoReq == [method |-> "", path |-> "", body |-> ""]
NoResp == [status |-> 0, providers |-> {}, echo |-> NoReq]

GithubProvider(o) ==
  [id |-> "github", clientId |-> o.clientId, clientSecret |-> o.clientSecret]
GoogleProvider(o) ==
  [id |-> "google", clientId |-> o.clientId, clientSecret |-> o.clientSecret]

\* Options whose Google provider is given the GitHub application's credentials.
NextAuthOptionsCrossed(e) ==
  [providers |->
     << GithubProvider([clientId |-> e["GITHUB_ID"],
                        clientSecret |-> e["GITHUB_SECRET"]]),
        GoogleProvider([clientId |-> e["GITHUB_ID"],
                        clientSecret |-> e["GITHUB_SECRET"]]) >>,
   secret |-> e["NEXTAUTH_SECRET"]]

\* The argument of NextAuth(...), read from process.env e at module load.
NextAuthOptions(e) ==
  [providers |->
     << GithubProvider([clientId |-> e["GITHUB_ID"],
                        clientSecret |-> e["GITHUB_SECRET"]]),
        GoogleProvider([clientId |-> e["GOOGLE_ID"],
                        clientSecret |-> e["GOOGLE_SECRET"]]) >>,
   secret |-> e["NEXTAUTH_SECRET"]]

ProviderIds(o) == {o.providers[i].id : i \in 1..Len(o.providers)}

\* NextAuth's answer to a request: the providers endpoint lists the configured
\* providers; every answer depends on the request it was given.
NextAuthRespond(o, req) ==
  [status |-> 200,
   providers |-> IF req.path = "providers" /\ req.method = "GET"
                   THEN ProviderIds(o) ELSE {},
   echo |-> req]

\* const handler = NextAuth({...}): called with the request, it hands the
\* request to NextAuth and returns NextAuth's response.
handler(req) ==
  [seen |-> req, made |-> NextAuthRespond(options, req),
   resp |-> NextAuthRespond(options, req)]

\* A POST export that hands NextAuth a copy of the request without its body.
PostWithoutBody(req) == handler([req EXCEPT !.body = ""])

\* export { handler as GET, handler as POST }
GET(req) == handler(req)
POST(req) == handler(req)

Exported == {"GET", "POST"}

InitRoute ==
  /\ env \in [EnvVars -> OpaqueValues \cup {Undefined}]
  /\ routeLoaded = FALSE
  /\ options = NextAuthOptions([v \in EnvVars |-> Undefined])
  /\ incoming = NoReq
  /\ nextAuthReq = NoReq
  /\ nextAuthResp = NoResp
  /\ outgoing = NoResp

\* The module is evaluated once, on the Worker's first use of the route.
LoadRoute ==
  /\ ~routeLoaded
  /\ routeLoaded' = TRUE
  /\ options' = NextAuthOptions(env)
  /\ UNCHANGED <<env, incoming, nextAuthReq, nextAuthResp, outgoing>>

\* The runtime routes a request for /api/auth/* to the export named after its
\* method; a method with no export is answered 405 by the framework.
RouteRequest(req) ==
  /\ routeLoaded
  /\ incoming' = req
  /\ IF req.method \in Exported
       THEN LET r == IF req.method = "GET" THEN GET(req) ELSE POST(req)
            IN /\ nextAuthReq' = r.seen
               /\ nextAuthResp' = r.made
               /\ outgoing' = r.resp
       ELSE /\ outgoing' = [NoResp EXCEPT !.status = 405]
            /\ UNCHANGED <<nextAuthReq, nextAuthResp>>
  /\ UNCHANGED <<env, routeLoaded, options>>

(***************************************************************************)
(* package.json, wrangler.toml and the accounts                            *)
(***************************************************************************)
\* "scripts" of package.json.
Scripts ==
  ("dev" :> "next dev --turbopack") @@
  ("build" :> "opennextjs-cloudflare build") @@
  ("build-local" :> "next build") @@
  ("deploy" :> "opennextjs-cloudflare deploy") @@
  ("preview" :> "opennextjs-cloudflare preview") @@
  ("start" :> "next start") @@
  ("lint" :> "eslint")

\* A command line split into its words, as the shell does.
Words(c) ==
  CASE c = "npm run build" -> <<"npm", "run", "build">>
    [] c = "npm run build-local" -> <<"npm", "run", "build-local">>
    [] c = "npm run deploy" -> <<"npm", "run", "deploy">>
    [] c = "opennextjs-cloudflare build" -> <<"opennextjs-cloudflare", "build">>
    [] c = "opennextjs-cloudflare deploy" -> <<"opennextjs-cloudflare", "deploy">>
    [] c = "next build" -> <<"next", "build">>
    [] c = "wrangler deploy" -> <<"wrangler", "deploy">>
    [] OTHER -> <<c>>

IsNpmRun(c) == Len(Words(c)) = 3 /\ Words(c)[1] = "npm" /\ Words(c)[2] = "run"
NpmTarget(c) == Words(c)[3]

WorkerName == "tinyauth"
CacheBucket == "tinyauth-cache"
CacheBinding == "NEXT_INC_CACHE_R2_BUCKET"
R2BindingError == "No R2 binding 'NEXT_INC_CACHE_R2_BUCKET' found!"

NoDescriptor ==
  [name |-> "", main |-> "", assets |-> [directory |-> "", binding |-> ""],
   r2_buckets |-> {}, services |-> {}]

\* A descriptor whose self-reference names another Worker.
WranglerTomlOtherService ==
  [name |-> "tinyauth",
   main |-> ".open-next/worker.js",
   assets |-> [directory |-> ".open-next/assets", binding |-> "ASSETS"],
   r2_buckets |-> {[binding |-> "NEXT_INC_CACHE_R2_BUCKET",
                    bucket_name |-> "tinyauth-cache"]},
   services |-> {[binding |-> "WORKER_SELF_REFERENCE", service |-> "my-nextauth-app"]}]

\* A descriptor left over from Cloudflare Pages, which names an output
\* directory the OpenNext build does not write.
WranglerTomlPages ==
  [name |-> "tinyauth",
   main |-> ".open-next/worker.js",
   pages_build_output_dir |-> ".open-next/server-function",
   assets |-> [directory |-> ".open-next/assets", binding |-> "ASSETS"],
   r2_buckets |-> {[binding |-> "NEXT_INC_CACHE_R2_BUCKET",
                    bucket_name |-> "tinyauth-cache"]},
   services |-> {[binding |-> "WORKER_SELF_REFERENCE", service |-> "tinyauth"]}]

\* wrangler.toml of docs/deploy.md, Step 3.
WranglerToml ==
  [name |-> "tinyauth",
   main |-> ".open-next/worker.js",
   assets |-> [directory |-> ".open-next/assets", binding |-> "ASSETS"],
   r2_buckets |-> {[binding |-> "NEXT_INC_CACHE_R2_BUCKET",
                    bucket_name |-> "tinyauth-cache"]},
   services |-> {[binding |-> "WORKER_SELF_REFERENCE", service |-> "tinyauth"]}]

\* wrangler.toml of the earlier guide deploy.md, Step 3: no cache bindings.
WranglerTomlEarlier ==
  [name |-> "tinyauth",
   main |-> ".open-next/worker.js",
   assets |-> [directory |-> ".open-next/assets", binding |-> "ASSETS"],
   r2_buckets |-> {},
   services |-> {}]

\* export default defineCloudflareConfig({ incrementalCache: "dummy" })
OpenNextConfigAlt == DefineCloudflareConfig("incrementalCache" :> DummyCache)

\* The configuration the OpenNext tool loads from open-next.config.ts.
ConfigOnDisk ==
  CASE openNextFile = "r2" -> OpenNextConfig
    [] openNextFile = "dummy" -> OpenNextConfigAlt
    [] OTHER -> DefineCloudflareConfig(<<>>)

\* The command OpenNext runs to build the Next.js app: the configured
\* buildCommand, else the package manager's build script.
BuildCommandOf(cfg) ==
  IF "buildCommand" \in DOMAIN cfg THEN cfg["buildCommand"] ELSE "npm run build"

Hosts == {"local", "ci"}
OpenNextOutputs == {".open-next/worker.js", ".open-next/assets"}
ApiToken == "CLOUDFLARE_API_TOKEN"

(***************************************************************************)
(* Command execution                                                       *)
(***************************************************************************)
Top == stack[Len(stack)]
Pop == SubSeq(stack, 1, Len(stack) - 1)
NotEntered == [n \in DOMAIN Scripts |-> 0]
DeployCommands == {"opennextjs-cloudflare deploy", "wrangler deploy"}

\* The workflow run a runner is executing.
Running == {i \in 1..Len(runs) : runs[i].status = "running"}
CurRun == CHOOSE i \in Running : TRUE

NoDeploy ==
  [cache |-> "", binding |-> FALSE, bucket |-> FALSE, built |-> FALSE,
   error |-> "", deployed |-> FALSE]

HasCacheBinding(d) == \E b \in d.r2_buckets : b.binding = CacheBinding
BoundBucketExists(d) ==
  \E b \in d.r2_buckets : b.binding = CacheBinding /\ b.bucket_name \in buckets
\* The paths a descriptor refers to: main, the asset directory and, in a
\* Pages configuration, pages_build_output_dir.
DescriptorPaths(d) ==
  {d.main, d.assets.directory} \cup
    (IF "pages_build_output_dir" \in DOMAIN d THEN {d.pages_build_output_dir} ELSE {})

IsBuilt(d, h) == DescriptorPaths(d) \subseteq files[h]

\* A deployment that goes ahead whatever the cache bindings are.
DeployErrorIgnoringCache(h) ==
  IF ~IsBuilt(descriptor, h) THEN "build output not found"
  ELSE IF h = "ci" /\ ApiToken \notin ghSecrets THEN "authentication error"
  ELSE ""

\* The error a deploy command ends with on host h, "" when it deploys.
DeployError(h) ==
  IF ~IsBuilt(descriptor, h) THEN "build output not found"
  ELSE IF h = "ci" /\ ApiToken \notin ghSecrets THEN "authentication error"
  ELSE IF /\ ConfigOnDisk["incrementalCache"] = R2IncrementalCache
          /\ ~(HasCacheBinding(descriptor) /\ BoundBucketExists(descriptor))
         THEN R2BindingError
  ELSE ""

\* npm run <script>: enter the script and run its command.
ExecNpmRun ==
  /\ stack # <<>> /\ ret = "none"
  /\ IsNpmRun(Top) /\ NpmTarget(Top) \in DOMAIN Scripts
  /\ Len(stack) < MaxDepth
  /\ stack' = Append(stack, Scripts[NpmTarget(Top)])
  /\ entered' = [entered EXCEPT ![NpmTarget(Top)] = @ + 1]
  /\ UNCHANGED <<ret, host, configVars, siteVars, projVars, guideVars>>

\* opennextjs-cloudflare build: load open-next.config.ts, clear the output
\* directory and run the build command.
ExecOpenNextBuild ==
  /\ stack # <<>> /\ ret = "none"
  /\ Top = "opennextjs-cloudflare build"
  /\ Len(stack) < MaxDepth
  /\ config' = ConfigOnDisk
  /\ configLoaded' = TRUE
  /\ files' = [files EXCEPT ![host] = @ \ OpenNextOutputs]
  /\ stack' = Append(stack, BuildCommandOf(ConfigOnDisk))
  /\ UNCHANGED <<ret, host, entered, adapterRest, nextVars, versions, lastDeploy,
                 projVars, guideVars>>

\* next build: compiles the app, or fails.
ExecNextBuild ==
  /\ stack # <<>> /\ ret = "none"
  /\ Top = "next build"
  /\ \E ok \in BOOLEAN :
       /\ ret' = IF ok THEN "ok" ELSE "fail"
       /\ files' = IF ok THEN [files EXCEPT ![host] = @ \cup {".next"}] ELSE files
  /\ stack' = Pop
  /\ UNCHANGED <<host, entered, configVars, versions, lastDeploy,
                 projVars, guideVars>>

\* opennextjs-cloudflare deploy / wrangler deploy.
ExecDeploy ==
  /\ stack # <<>> /\ ret = "none"
  /\ Top \in DeployCommands
  /\ LET err == DeployError(host)
     IN /\ versions' = IF err = ""
                         THEN Append(versions, [by |-> host,
                                                 run |-> IF host = "ci" THEN CurRun ELSE 0])
                         ELSE versions
        /\ lastDeploy' =
             [cache |-> ConfigOnDisk["incrementalCache"],
              binding |-> HasCacheBinding(descriptor),
              bucket |-> BoundBucketExists(descriptor),
              built |-> IsBuilt(descriptor, host),
              error |-> err,
              deployed |-> (Len(versions') > Len(versions))]
        /\ ret' = IF err = "" THEN "ok" ELSE "fail"
  /\ stack' = Pop
  /\ UNCHANGED <<host, entered, configVars, files, projVars, guideVars>>

\* A command whose child has finished: OpenNext bundles the Worker when the
\* build command succeeded; every command ends with its child's result.
ExecReturn ==
  /\ stack # <<>> /\ ret # "none"
  /\ files' = IF Top = "opennextjs-cloudflare build" /\ ret = "ok"
                THEN [files EXCEPT ![host] = @ \cup OpenNextOutputs]
                ELSE files
  /\ stack' = Pop
  /\ UNCHANGED <<ret, host, entered, configVars, versions, lastDeploy,
                 projVars, guideVars>>

Exec ==
  \/ ExecNpmRun
  \/ ExecOpenNextBuild
  \/ ExecNextBuild
  \/ ExecDeploy
  \/ ExecReturn

\* A top-level command typed on host h.
StartCommand(c, h) ==
  /\ stack = <<>> /\ ret = "none"
  /\ stack' = <<c>>
  /\ host' = h
  /\ entered' = NotEntered
  /\ ret' = "none"

(***************************************************************************)
(* Provisioning: secrets, .dev.vars, the R2 bucket, OAuth callbacks        *)
(***************************************************************************)
Guides == {"docs", "earlier"}   \* docs/deploy.md and the earlier deploy.md
Environments == {"local", "production"}

WorkerUrl == "https://tinyauth.<your-subdomain>.workers.dev"

NoVars == [v \in EnvVars |-> Undefined]

\* The `wrangler secret put` list of Step 4 and of Option B step 5.
ProductionSecrets ==
  {"GITHUB_ID", "GITHUB_SECRET", "GOOGLE_ID", "GOOGLE_SECRET",
   "NEXTAUTH_SECRET", "NEXTAUTH_URL"}

\* The `wrangler secret put` list of "Environment Variables Not Working".
TroubleshootSecrets ==
  {"GITHUB_ID", "GITHUB_SECRET", "NEXTAUTH_SECRET", "NEXTAUTH_URL"}

\* The value typed at wrangler's prompt.
Entered(v) == IF v = "NEXTAUTH_URL" THEN WorkerUrl ELSE "entered"

\* .dev.vars of docs/deploy.md, Step 5.
DevVars ==
  ("GITHUB_ID" :> "your_github_client_id") @@
  ("GITHUB_SECRET" :> "your_github_client_secret") @@
  ("GOOGLE_ID" :> "your_google_client_id") @@
  ("GOOGLE_SECRET" :> "your_google_client_secret") @@
  ("NEXTAUTH_SECRET" :> "a_very_secure_random_string_generated_for_local_use") @@
  ("NEXTAUTH_URL" :> "http://localhost:3000")

\* .dev.vars of the earlier deploy.md, Step 5.
DevVarsEarlier ==
  ("GITHUB_ID" :> "your_github_client_id") @@
  ("GITHUB_SECRET" :> "your_github_client_secret") @@
  ("GOOGLE_ID" :> Undefined) @@
  ("GOOGLE_SECRET" :> Undefined) @@
  ("NEXTAUTH_SECRET" :> "a_very_secure_random_string_generated_for_local_use") @@
  ("NEXTAUTH_URL" :> "http://localhost:8787")

DevVarsOf(g) == IF g = "docs" THEN DevVars ELSE DevVarsEarlier

\* The providers each guide's route.ts configures.
ProvidersOf(g) == IF g = "docs" THEN {"github", "google"} ELSE {"github"}

\* The callback URL each guide tells the operator to register.
CallbackOf(g, p, e) ==
  CASE p = "github" /\ e = "local" ->
         "http://localhost:3000/api/auth/callback/github"
    [] p = "github" /\ e = "production" ->
         "https://tinyauth.<your-subdomain>.workers.dev/api/auth/callback/github"
    [] p = "google" /\ e = "local" ->
         "http://localhost:3000/api/auth/callback/google"
    [] p = "google" /\ e = "production" ->
         "https://tinyauth.<your-subdomain>.workers.dev/api/auth/callback/google"

PutSecrets(list, step) ==
  /\ secrets' = [v \in EnvVars |-> IF v \in list THEN Entered(v) ELSE secrets[v]]
  /\ lastProvision' = step

WriteDevVars(g) ==
  /\ devVars' = DevVarsOf(g)
  /\ lastProvision' = "devVars"

\* npx wrangler r2 bucket create tinyauth-cache
CreateBucket == buckets' = buckets \cup {"tinyauth-cache"}

Register(g, p, e) ==
  registered' = registered \cup {[provider |-> p, env |-> e, url |-> CallbackOf(g, p, e)]}

\* NEXTAUTH_URL as the application sees it in environment e.
NextAuthUrl(e) == IF e = "local" THEN devVars["NEXTAUTH_URL"] ELSE secrets["NEXTAUTH_URL"]

\* The redirect_uri NextAuth sends to provider p in environment e.
RedirectUri(p, e) == NextAuthUrl(e) \o "/api/auth/callback/" \o p

(***************************************************************************)
(* The operator following docs/deploy.md                                   *)
(***************************************************************************)
\* Steps 2 to 5, without Step 6.
GuideCommonNoBucket ==
  <<"route", "scripts", "openNextConfig", "wranglerToml", "nextConfig",
    "secrets", "devVars">>

\* Steps 2 to 6, without Step 4.
GuideCommonNoSecrets ==
  <<"route", "scripts", "openNextConfig", "wranglerToml", "nextConfig",
    "devVars", "bucket">>

\* Steps 2 to 6.
GuideCommon ==
  <<"route", "scripts", "openNextConfig", "wranglerToml", "nextConfig",
    "secrets", "devVars", "bucket">>
\* Step 7, Option A.
OptionA == <<"build", "deploy", "callback">>
\* Step 7, Option B.
OptionB == <<"tokenSecret", "bucket", "workflow", "push", "secrets", "callbacks">>

StepsOf(phase) ==
  CASE phase = "common" -> GuideCommon
    [] phase = "A" -> OptionA
    [] phase = "B" -> OptionB
    [] OTHER -> <<>>

CurStep == IF pc.phase = "done" THEN "none" ELSE StepsOf(pc.phase)[pc.i]

\* After the last common step the operator picks Option A or Option B.
NextPcs ==
  IF pc.i < Len(StepsOf(pc.phase)) THEN {[pc EXCEPT !.i = @ + 1]}
  ELSE IF pc.phase = "common" THEN {[phase |-> "A", i |-> 1], [phase |-> "B", i |-> 1]}
  ELSE {[phase |-> "done", i |-> 1]}

Advance == pc' \in NextPcs

WorkflowFile == ".github/workflows/deploy.yml"

FileOf(step) ==
  CASE step = "route" -> "app/api/auth/[...nextauth]/route.ts"
    [] step = "scripts" -> "package.json"
    [] step = "nextConfig" -> "next.config.ts"
    [] step = "workflow" -> WorkflowFile

StepWriteFile ==
  /\ CurStep \in {"route", "scripts", "nextConfig", "workflow"}
  /\ project' = project \cup {FileOf(CurStep)}
  /\ Advance
  /\ UNCHANGED <<openNextFile, descriptor, secrets, devVars, buckets, ghSecrets,
                 lastProvision, registered, pushLog, runs,
                 configVars, execVars, siteVars>>

StepOpenNextConfig ==
  /\ CurStep = "openNextConfig"
  /\ openNextFile' = "r2"
  /\ project' = project \cup {"open-next.config.ts"}
  /\ Advance
  /\ UNCHANGED <<descriptor, secrets, devVars, buckets, ghSecrets,
                 lastProvision, registered, pushLog, runs,
                 configVars, execVars, siteVars>>

StepWranglerToml ==
  /\ CurStep = "wranglerToml"
  /\ descriptor' = WranglerToml
  /\ project' = project \cup {"wrangler.toml"}
  /\ Advance
  /\ UNCHANGED <<openNextFile, secrets, devVars, buckets, ghSecrets,
                 lastProvision, registered, pushLog, runs,
                 configVars, execVars, siteVars>>

StepSecrets ==
  /\ CurStep = "secrets"
  /\ PutSecrets(ProductionSecrets, IF pc.phase = "B" THEN "optionB" ELSE "step4")
  /\ Advance
  /\ UNCHANGED <<project, openNextFile, descriptor, devVars, buckets, ghSecrets,
                 registered, pushLog, runs,
                 configVars, execVars, siteVars>>

StepDevVars ==
  /\ CurStep = "devVars"
  /\ WriteDevVars(guide)
  /\ project' = project \cup {".dev.vars"}
  /\ Advance
  /\ UNCHANGED <<openNextFile, descriptor, secrets, buckets, ghSecrets,
                 registered, pushLog, runs,
                 configVars, execVars, siteVars>>

StepBucket ==
  /\ CurStep = "bucket"
  /\ CreateBucket
  /\ Advance
  /\ UNCHANGED <<project, openNextFile, descriptor, secrets, devVars, ghSecrets,
                 lastProvision, registered, pushLog, runs,
                 configVars, execVars, siteVars>>

StepTokenSecret ==
  /\ CurStep = "tokenSecret"
  /\ ghSecrets' = ghSecrets \cup {ApiToken}
  /\ Advance
  /\ UNCHANGED <<project, openNextFile, descriptor, secrets, devVars, buckets,
                 lastProvision, registered, pushLog, runs,
                 configVars, execVars, siteVars>>

\* Option A step 3 names the GitHub callback; Option B step 6 names both.
StepCallback ==
  /\ CurStep \in {"callback", "callbacks"}
  /\ registered' = registered \cup
       {[provider |-> p, env |-> "production",
         url |-> CallbackOf(guide, p, "production")] :
          p \in IF CurStep = "callback" THEN {"github"} ELSE ProvidersOf(guide)}
  /\ Advance
  /\ UNCHANGED <<project, openNextFile, descriptor, secrets, devVars, buckets,
                 ghSecrets, lastProvision, pushLog, runs,
                 configVars, execVars, siteVars>>

\* Option A steps 1 and 2: npm run build, npm run deploy.
StepStartCommand ==
  /\ CurStep \in {"build", "deploy"}
  /\ StartCommand(IF CurStep = "build" THEN "npm run build" ELSE "npm run deploy",
                  "local")
  /\ UNCHANGED <<configVars, projVars, siteVars, guideVars>>

\* The command has ended: go on when it succeeded, else run it again.
StepFinishCommand ==
  /\ CurStep \in {"build", "deploy"}
  /\ stack = <<>> /\ ret # "none" /\ host = "local"
  /\ ret' = "none"
  /\ IF ret = "ok" THEN Advance ELSE pc' = pc
  /\ UNCHANGED <<stack, host, entered, configVars, projVars, siteVars,
                 pushLog, runs>>

(***************************************************************************)
(* .github/workflows/deploy.yml                                            *)
(***************************************************************************)
Branches == {"main", "dev"}

\* on: push: branches: [main]
OnPushBranches == {"main"}

\* jobs.deploy.steps
WorkflowSteps == <<"checkout", "setup-node", "npm ci", "npm run build", "deploy">>

\* The command a step of the workflow runs, "" for a step that runs none here.
CommandOfStep(n) ==
  CASE n = "npm run build" -> "npm run build"
    [] n = "deploy" -> "wrangler deploy"
    [] OTHER -> ""

\* Steps that run whatever came before, as with `if: always()`.
StepMayRunAlways(log) == TRUE

\* No step has a condition: a step runs when every step before it succeeded.
StepMayRun(log) == \A i \in 1..Len(log) : log[i].result = "ok"

NewRun == [status |-> "queued", log |-> <<>>]

Push(b) ==
  /\ Len(pushLog) < MaxPushes
  /\ pushLog' = Append(pushLog, b)
  /\ runs' = IF WorkflowFile \in project /\ b \in OnPushBranches
               THEN Append(runs, NewRun) ELSE runs

\* Option B step 4: git push origin main.
StepPush ==
  /\ CurStep = "push"
  /\ Push("main")
  /\ Advance
  /\ UNCHANGED <<projVars, configVars, execVars, siteVars>>

\* Later pushes, to any branch.
DevPush(b) ==
  /\ pushLog # <<>>
  /\ Push(b)
  /\ UNCHANGED <<pc, projVars, configVars, execVars, siteVars>>

Queued == {i \in 1..Len(runs) : runs[i].status = "queued"}
NextStep(r) == WorkflowSteps[Len(runs[r].log) + 1]
MayStep(r) ==
  Len(runs[r].log) < Len(WorkflowSteps) /\ StepMayRun(runs[r].log)

\* A runner takes the oldest queued run; it starts with no build outputs.
CIStart ==
  /\ Running = {} /\ Queued # {}
  /\ LET r == CHOOSE i \in Queued : \A j \in Queued : i <= j
     IN runs' = [runs EXCEPT ![r].status = "running"]
  /\ files' = [files EXCEPT !["ci"] = {}]
  /\ UNCHANGED <<pc, pushLog, versions, lastDeploy, configVars, projVars, execVars>>

\* checkout, setup-node, npm ci; installing dependencies may fail.
CIStepPlain ==
  /\ Running # {} /\ MayStep(CurRun)
  /\ CommandOfStep(NextStep(CurRun)) = ""
  /\ \E ok \in BOOLEAN :
       /\ ok \/ NextStep(CurRun) = "npm ci"
       /\ runs' = [runs EXCEPT ![CurRun].log =
                     Append(@, [name |-> NextStep(CurRun),
                                result |-> IF ok THEN "ok" ELSE "fail"])]
  /\ UNCHANGED <<pc, pushLog, configVars, projVars, execVars, siteVars>>

CIStepStart ==
  /\ Running # {} /\ MayStep(CurRun)
  /\ CommandOfStep(NextStep(CurRun)) # ""
  /\ StartCommand(CommandOfStep(NextStep(CurRun)), "ci")
  /\ UNCHANGED <<configVars, projVars, siteVars, guideVars>>

CIStepFinish ==
  /\ Running # {} /\ MayStep(CurRun)
  /\ CommandOfStep(NextStep(CurRun)) # ""
  /\ stack = <<>> /\ ret # "none" /\ host = "ci"
  /\ ret' = "none"
  /\ runs' = [runs EXCEPT ![CurRun].log =
                Append(@, [name |-> NextStep(CurRun), result |-> ret])]
  /\ UNCHANGED <<stack, host, entered, pc, pushLog, configVars, projVars, siteVars>>

\* The run ends when its steps are done or one of them failed.
CIEnd ==
  /\ Running # {} /\ ~MayStep(CurRun)
  /\ runs' = [runs EXCEPT ![CurRun].status =
                IF StepMayRun(runs[CurRun].log) THEN "success" ELSE "failure"]
  /\ UNCHANGED <<pc, pushLog, configVars, projVars, execVars, siteVars>>

\* The deployed Worker handles a request for /api/auth/*: route.ts reads
\* process.env, which holds the secrets set for the Worker.
WorkerServe ==
  /\ Len(versions) > 0
  /\ env' = secrets
  /\ routeLoaded' = TRUE
  /\ options' = NextAuthOptions(secrets)
  /\ UNCHANGED <<incoming, nextAuthReq, nextAuthResp, outgoing,
                 configVars, projVars, execVars, siteVars, guideVars, cbVars, healthVars>>

(***************************************************************************)
(* check-worker.sh                                                         *)
(***************************************************************************)
\* What curl -w "%{http_code}" may print for the Worker's root URL: a status
\* code, 000 when no response came, nothing when curl could not run.
HttpCodes == {"200", "204", "301", "404", "500", "503", "000", ""}

\* What curl -w "%{time_total}" may print.
Times == {"0.052", "1.204", "0.000"}

IsInteger(str) == str \in {"200", "204", "301", "404", "500", "503", "000"}
IntOf(str) ==
  CASE str = "200" -> 200 [] str = "204" -> 204 [] str = "301" -> 301
    [] str = "404" -> 404 [] str = "500" -> 500 [] str = "503" -> 503
    [] str = "000" -> 0

\* A test that takes every 2xx status for success.
TestEqSuccessClass(str, n) ==
  IF ~IsInteger(str) THEN 2
  ELSE IF IntOf(str) \div 100 = n \div 100 THEN 0 ELSE 1

\* [ $str -eq n ]: 0 when equal, 1 when not, 2 when str is no integer.
TestEq(str, n) ==
  IF ~IsInteger(str) THEN 2
  ELSE IF IntOf(str) = n THEN 0 ELSE 1

\* Exit status of curl: 0 with a response, 7 without, 127 when not found.
CurlExit(code) == CASE code = "000" -> 7 [] code = "" -> 127 [] OTHER -> 0

\* Words the body of /api/auth/providers may hold: the names of the
\* configured providers, or an error page.
BodyWords == {"github", "google", "error"}

\* echo "$PROVIDERS" | grep -q word
GrepQ(found, word) == IF word \in found THEN 0 ELSE 1

Echo(line) == output' = Append(output, line)

InitHealth ==
  /\ hcPc = "echo start"
  /\ STATUS = ""
  /\ RESPONSE_TIME = ""
  /\ PROVIDERS = {}
  /\ checksRun = {}
  /\ output = <<>>
  /\ lastStatus = 0
  /\ exitStatus = -1

\* echo "Checking Worker health..."
HcEchoStart ==
  /\ hcPc = "echo start"
  /\ Echo("Checking Worker health...")
  /\ lastStatus' = 0
  /\ hcPc' = "curl status"
  /\ UNCHANGED <<STATUS, RESPONSE_TIME, PROVIDERS, checksRun, exitStatus>>

\* STATUS=$(curl -s -o /dev/null -w "%{http_code}" $WORKER_URL)
HcCurlStatus ==
  /\ hcPc = "curl status"
  /\ \E code \in HttpCodes :
       /\ STATUS' = code
       /\ lastStatus' = CurlExit(code)
  /\ checksRun' = checksRun \cup {"status"}
  /\ hcPc' = "if status"
  /\ UNCHANGED <<RESPONSE_TIME, PROVIDERS, output, exitStatus>>

\* if [ $STATUS -eq 200 ]; then echo UP; else echo DOWN; exit 1; fi
HcIfStatus ==
  /\ hcPc = "if status"
  /\ IF TestEq(STATUS, 200) = 0
       THEN /\ Echo("Worker is UP (HTTP " \o STATUS \o ")")
            /\ lastStatus' = 0
            /\ hcPc' = "curl time"
            /\ UNCHANGED exitStatus
       ELSE /\ Echo("Worker is DOWN or ERROR (HTTP " \o STATUS \o ")")
            /\ lastStatus' = 1
            /\ exitStatus' = 1
            /\ hcPc' = "exited"
  /\ UNCHANGED <<STATUS, RESPONSE_TIME, PROVIDERS, checksRun>>

\* RESPONSE_TIME=$(curl ...); echo "Response time: ${RESPONSE_TIME}s"
HcResponseTime ==
  /\ hcPc = "curl time"
  /\ \E t \in Times :
       /\ RESPONSE_TIME' = t
       /\ Echo("Response time: " \o t \o "s")
  /\ checksRun' = checksRun \cup {"time"}
  /\ lastStatus' = 0
  /\ hcPc' = "curl providers"
  /\ UNCHANGED <<STATUS, PROVIDERS, exitStatus>>

\* PROVIDERS=$(curl -s "$WORKER_URL/api/auth/providers")
HcCurlProviders ==
  /\ hcPc = "curl providers"
  /\ \E found \in SUBSET BodyWords, failed \in BOOLEAN :
       /\ failed => found = {}
       /\ PROVIDERS' = found
       /\ lastStatus' = IF failed THEN 7 ELSE 0
  /\ checksRun' = checksRun \cup {"providers"}
  /\ hcPc' = "if github"
  /\ UNCHANGED <<STATUS, RESPONSE_TIME, output, exitStatus>>

\* if echo "$PROVIDERS" | grep -q "github"; then ... else ... fi
HcIfGithub ==
  /\ hcPc = "if github"
  /\ IF GrepQ(PROVIDERS, "github") = 0
       THEN Echo("NextAuth GitHub provider configured")
       ELSE Echo("GitHub provider not found")
  /\ lastStatus' = 0
  /\ hcPc' = "if google"
  /\ UNCHANGED <<STATUS, RESPONSE_TIME, PROVIDERS, checksRun, exitStatus>>

\* if echo "$PROVIDERS" | grep -q "google"; then ... else ... fi
HcIfGoogle ==
  /\ hcPc = "if google"
  /\ IF GrepQ(PROVIDERS, "google") = 0
       THEN Echo("NextAuth Google provider configured")
       ELSE Echo("Google provider not found")
  /\ lastStatus' = 0
  /\ hcPc' = "echo complete"
  /\ UNCHANGED <<STATUS, RESPONSE_TIME, PROVIDERS, checksRun, exitStatus>>

\* echo "Health check complete!", then the end of the script: its exit status
\* is that of the last command.
HcEchoComplete ==
  /\ hcPc = "echo complete"
  /\ Echo("Health check complete!")
  /\ lastStatus' = 0
  /\ exitStatus' = lastStatus'
  /\ hcPc' = "exited"
  /\ UNCHANGED <<STATUS, RESPONSE_TIME, PROVIDERS, checksRun>>

(***************************************************************************)
(* Troubleshooting (Appendix 3) on a project in any condition              *)
(***************************************************************************)
TroubleDeploy ==
  /\ Len(versions) < MaxVersions
  /\ StartCommand("npm run deploy", "local")
  /\ UNCHANGED <<configVars, projVars, siteVars, guideVars>>

TroubleFinish ==
  /\ stack = <<>> /\ ret # "none"
  /\ ret' = "none"
  /\ UNCHANGED <<stack, host, entered, configVars, projVars, siteVars, guideVars>>

\* "R2 Bucket Binding Error", step 1.
FixCreateBucket ==
  /\ CreateBucket
  /\ UNCHANGED <<project, openNextFile, descriptor, secrets, devVars, ghSecrets,
                 lastProvision, registered, configVars, execVars, siteVars, guideVars>>

\* "R2 Bucket Binding Error", step 2.
FixBindings ==
  /\ descriptor' =
       [descriptor EXCEPT
          !.r2_buckets = {[binding |-> "NEXT_INC_CACHE_R2_BUCKET",
                           bucket_name |-> "tinyauth-cache"]},
          !.services = {[binding |-> "WORKER_SELF_REFERENCE", service |-> "tinyauth"]}]
  /\ UNCHANGED <<project, openNextFile, secrets, devVars, buckets, ghSecrets,
                 lastProvision, registered, configVars, execVars, siteVars, guideVars>>

\* "R2 Bucket Binding Error", step 4.
FixUseDummy ==
  /\ openNextFile' = "dummy"
  /\ UNCHANGED <<project, descriptor, secrets, devVars, buckets, ghSecrets,
                 lastProvision, registered, configVars, execVars, siteVars, guideVars>>

\* Step 4 on its own.
ProvisionSecrets ==
  /\ PutSecrets(ProductionSecrets, "step4")
  /\ UNCHANGED <<project, openNextFile, descriptor, devVars, buckets, ghSecrets,
                 registered, configVars, execVars, siteVars, guideVars>>

\* Step 5 on its own.
ProvisionDevVars ==
  /\ WriteDevVars("docs")
  /\ UNCHANGED <<project, openNextFile, descriptor, secrets, buckets, ghSecrets,
                 registered, configVars, execVars, siteVars, guideVars>>

\* "Environment Variables Not Working": variables are undefined in the Worker.
ProvisionTroubleshoot ==
  /\ \E v \in EnvVars : secrets[v] = Undefined
  /\ PutSecrets(TroubleshootSecrets, "troubleshoot")
  /\ UNCHANGED <<project, openNextFile, descriptor, devVars, buckets, ghSecrets,
                 registered, configVars, execVars, siteVars, guideVars>>

(***************************************************************************)
(* OAuth callbacks in either guide                                         *)
(***************************************************************************)
\* The `wrangler secret put` list of the earlier deploy.md, Step 4.
ProductionSecretsEarlier ==
  {"GITHUB_ID", "GITHUB_SECRET", "NEXTAUTH_SECRET", "NEXTAUTH_URL"}

NoSignIn == [provider |-> "", env |-> "", redirect |-> "", accepted |-> FALSE]

CbWriteDevVars ==
  /\ WriteDevVars(guide)
  /\ UNCHANGED <<project, openNextFile, descriptor, secrets, buckets, ghSecrets,
                 registered, lastSignIn, guide>>

CbPutSecrets ==
  /\ PutSecrets(IF guide = "docs" THEN ProductionSecrets ELSE ProductionSecretsEarlier,
                "step4")
  /\ UNCHANGED <<project, openNextFile, descriptor, devVars, buckets, ghSecrets,
                 registered, lastSignIn, guide>>

\* Appendix 1 and 2: register the development and production callback URLs.
CbRegister(p, e) ==
  /\ p \in ProvidersOf(guide)
  /\ Register(guide, p, e)
  /\ UNCHANGED <<project, openNextFile, descriptor, secrets, devVars, buckets,
                 ghSecrets, lastProvision, lastSignIn, guide>>

\* A sign-in: the provider accepts the redirect_uri only if it is registered.
CbSignIn(p, e) ==
  /\ p \in ProvidersOf(guide)
  /\ NextAuthUrl(e) # Undefined
  /\ lastSignIn' =
       [provider |-> p, env |-> e, redirect |-> RedirectUri(p, e),
        accepted |-> \E r \in registered :
                        r.provider = p /\ r.url = RedirectUri(p, e)]
  /\ UNCHANGED <<projVars, guide>>

(***************************************************************************)
(* Specifications                                                          *)
(***************************************************************************)
\* Each specification starts the other concerns at rest and leaves them there.
IdleConfig ==
  /\ adapterRest = <<>>
  /\ config = <<>>
  /\ configLoaded = FALSE
  /\ processEnvCI = JsUndefined
  /\ dirname = "/home/dev/tinyauth"
  /\ nextConfigFile = "repo"
  /\ nextConfig = <<>>
  /\ nextConfigLoaded = FALSE

IdleRoute ==
  /\ env = [v \in EnvVars |-> Undefined]
  /\ routeLoaded = FALSE
  /\ options = NextAuthOptions([v \in EnvVars |-> Undefined])
  /\ incoming = NoReq
  /\ nextAuthReq = NoReq
  /\ nextAuthResp = NoResp
  /\ outgoing = NoResp

\* Nothing written, nothing provisioned.
IdleProject ==
  /\ project = {}
  /\ openNextFile = "none"
  /\ descriptor = NoDescriptor
  /\ secrets = NoVars
  /\ devVars = NoVars
  /\ buckets = {}
  /\ ghSecrets = {}
  /\ lastProvision = "none"
  /\ registered = {}

IdleExec ==
  /\ stack = <<>>
  /\ ret = "none"
  /\ host = "local"
  /\ entered = NotEntered

IdleSite ==
  /\ files = [h \in Hosts |-> {}]
  /\ versions = <<>>
  /\ lastDeploy = NoDeploy

IdleCallback ==
  /\ guide = "docs"
  /\ lastSignIn = NoSignIn

\* The script has run to its end.
IdleHealth ==
  /\ hcPc = "exited"
  /\ STATUS = ""
  /\ RESPONSE_TIME = ""
  /\ PROVIDERS = {}
  /\ checksRun = {}
  /\ output = <<>>
  /\ lastStatus = 0
  /\ exitStatus = 0

ConfigInit ==
  /\ InitConfig /\ InitNextConfig /\ IdleRoute /\ IdleProject /\ IdleExec /\ IdleSite /\ IdleCallback /\ IdleHealth
  /\ pc = [phase |-> "done", i |-> 1] /\ pushLog = <<>> /\ runs = <<>>
ConfigNext ==
  \/ LoadOpenNextConfig
       /\ UNCHANGED <<routeVars, projVars, execVars, siteVars, guideVars, cbVars, healthVars>>
  \/ LoadNextConfig
       /\ UNCHANGED <<routeVars, projVars, execVars, siteVars, guideVars, cbVars, healthVars>>
SpecConfig == ConfigInit /\ [][ConfigNext]_vars

RouteInit ==
  /\ IdleConfig /\ InitRoute /\ IdleProject /\ IdleExec /\ IdleSite /\ IdleCallback /\ IdleHealth
  /\ pc = [phase |-> "done", i |-> 1] /\ pushLog = <<>> /\ runs = <<>>
RouteNext ==
  \/ LoadRoute
       /\ UNCHANGED <<configVars, projVars, execVars, siteVars, guideVars, cbVars, healthVars>>
  \/ \E req \in Requests : RouteRequest(req)
       /\ UNCHANGED <<configVars, projVars, execVars, siteVars, guideVars, cbVars, healthVars>>
SpecRoute == RouteInit /\ [][RouteNext]_vars

\* The operator starts docs/deploy.md at Step 2 with an empty project.
Init ==
  /\ IdleConfig /\ IdleRoute /\ IdleProject /\ IdleExec /\ IdleSite /\ IdleCallback /\ IdleHealth
  /\ pc = [phase |-> "common", i |-> 1] /\ pushLog = <<>> /\ runs = <<>>

Next ==
  \/ StepWriteFile /\ UNCHANGED <<routeVars, cbVars, healthVars>>
  \/ StepOpenNextConfig /\ UNCHANGED <<routeVars, cbVars, healthVars>>
  \/ StepWranglerToml /\ UNCHANGED <<routeVars, cbVars, healthVars>>
  \/ StepSecrets /\ UNCHANGED <<routeVars, cbVars, healthVars>>
  \/ StepDevVars /\ UNCHANGED <<routeVars, cbVars, healthVars>>
  \/ StepBucket /\ UNCHANGED <<routeVars, cbVars, healthVars>>
  \/ StepTokenSecret /\ UNCHANGED <<routeVars, cbVars, healthVars>>
  \/ StepCallback /\ UNCHANGED <<routeVars, cbVars, healthVars>>
  \/ StepStartCommand /\ UNCHANGED <<routeVars, cbVars, healthVars>>
  \/ StepFinishCommand /\ UNCHANGED <<routeVars, cbVars, healthVars>>
  \/ StepPush /\ UNCHANGED <<routeVars, cbVars, healthVars>>
  \/ \E b \in Branches : DevPush(b) /\ UNCHANGED <<routeVars, cbVars, healthVars>>
  \/ CIStart /\ UNCHANGED <<routeVars, cbVars, healthVars>>
  \/ CIStepPlain /\ UNCHANGED <<routeVars, cbVars, healthVars>>
  \/ CIStepStart /\ UNCHANGED <<routeVars, cbVars, healthVars>>
  \/ CIStepFinish /\ UNCHANGED <<routeVars, cbVars, healthVars>>
  \/ CIEnd /\ UNCHANGED <<routeVars, cbVars, healthVars>>
  \/ ExecNpmRun /\ UNCHANGED <<routeVars, cbVars, healthVars>>
  \/ ExecOpenNextBuild /\ UNCHANGED <<routeVars, cbVars, healthVars>>
  \/ ExecNextBuild /\ UNCHANGED <<routeVars, cbVars, healthVars>>
  \/ ExecDeploy /\ UNCHANGED <<routeVars, cbVars, healthVars>>
  \/ ExecReturn /\ UNCHANGED <<routeVars, cbVars, healthVars>>
  \/ WorkerServe
Spec == Init /\ [][Next]_vars

\* A command that can take a step eventually takes it.
ExecStep == Exec /\ UNCHANGED <<routeVars, projVars, guideVars, cbVars, healthVars>>
FairSpec == Spec /\ WF_vars(ExecStep)

\* A built project whose descriptor, bucket and secrets are in any condition.
TroubleInit ==
  /\ IdleConfig /\ IdleRoute /\ IdleExec /\ IdleCallback /\ IdleHealth
  /\ project = {"app/api/auth/[...nextauth]/route.ts", "package.json",
                "open-next.config.ts", "wrangler.toml", "next.config.ts"}
  /\ openNextFile = "r2"
  /\ descriptor \in {WranglerToml, WranglerTomlEarlier}
  /\ secrets = NoVars
  /\ devVars = NoVars
  /\ buckets \in SUBSET {CacheBucket}
  /\ ghSecrets = {}
  /\ lastProvision = "none"
  /\ registered = {}
  /\ files = [h \in Hosts |-> IF h = "local" THEN OpenNextOutputs \cup {".next"} ELSE {}]
  /\ versions = <<>>
  /\ lastDeploy = NoDeploy
  /\ pc = [phase |-> "done", i |-> 1] /\ pushLog = <<>> /\ runs = <<>>

TroubleNext ==
  \/ TroubleDeploy /\ UNCHANGED <<routeVars, cbVars, healthVars>>
  \/ TroubleFinish /\ UNCHANGED <<routeVars, cbVars, healthVars>>
  \/ ExecNpmRun /\ UNCHANGED <<routeVars, cbVars, healthVars>>
  \/ ExecDeploy /\ UNCHANGED <<routeVars, cbVars, healthVars>>
  \/ ExecReturn /\ UNCHANGED <<routeVars, cbVars, healthVars>>
  \/ FixCreateBucket /\ UNCHANGED <<routeVars, cbVars, healthVars>>
  \/ FixBindings /\ UNCHANGED <<routeVars, cbVars, healthVars>>
  \/ FixUseDummy /\ UNCHANGED <<routeVars, cbVars, healthVars>>
  \/ ProvisionSecrets /\ UNCHANGED <<routeVars, cbVars, healthVars>>
  \/ ProvisionDevVars /\ UNCHANGED <<routeVars, cbVars, healthVars>>
  \/ ProvisionTroubleshoot /\ UNCHANGED <<routeVars, cbVars, healthVars>>
SpecTrouble == TroubleInit /\ [][TroubleNext]_vars

\* Either guide, nothing provisioned yet.
CallbackInit ==
  /\ IdleConfig /\ IdleRoute /\ IdleProject /\ IdleExec /\ IdleSite /\ IdleHealth
  /\ guide \in Guides
  /\ lastSignIn = NoSignIn
  /\ pc = [phase |-> "done", i |-> 1] /\ pushLog = <<>> /\ runs = <<>>

CallbackNext ==
  \/ CbWriteDevVars
       /\ UNCHANGED <<configVars, routeVars, execVars, siteVars, guideVars, healthVars>>
  \/ CbPutSecrets
       /\ UNCHANGED <<configVars, routeVars, execVars, siteVars, guideVars, healthVars>>
  \/ \E p \in {"github", "google"}, e \in Environments : CbRegister(p, e)
       /\ UNCHANGED <<configVars, routeVars, execVars, siteVars, guideVars, healthVars>>
  \/ \E p \in {"github", "google"}, e \in Environments : CbSignIn(p, e)
       /\ UNCHANGED <<configVars, routeVars, execVars, siteVars, guideVars, healthVars>>
SpecCallback == CallbackInit /\ [][CallbackNext]_vars

\* check-worker.sh run against a Worker in any condition.
HealthInit ==
  /\ IdleConfig /\ IdleRoute /\ IdleProject /\ IdleExec /\ IdleSite /\ IdleCallback
  /\ InitHealth
  /\ pc = [phase |-> "done", i |-> 1] /\ pushLog = <<>> /\ runs = <<>>

HealthStep ==
  \/ HcEchoStart
  \/ HcCurlStatus
  \/ HcIfStatus
  \/ HcResponseTime
  \/ HcCurlProviders
  \/ HcIfGithub
  \/ HcIfGoogle
  \/ HcEchoComplete

HealthNext ==
  HealthStep
    /\ UNCHANGED <<configVars, routeVars, projVars, execVars, siteVars, guideVars,
                   cbVars>>

\* The shell runs the script's commands one after the other.
SpecHealth == HealthInit /\ [][HealthNext]_vars /\ WF_vars(HealthNext)

(***************************************************************************)
(* Properties                                                              *)
(***************************************************************************)

\* C2: for every request routed to route.ts with method GET or POST, the
\* request NextAuth received is the incoming request itself and the response
\* returned is the response NextAuth produced.
C2_PureDelegation ==
  (incoming # NoReq /\ incoming.method \in {"GET", "POST"}) =>
     /\ nextAuthReq = incoming
     /\ outgoing = nextAuthResp
     /\ outgoing.status = 200

C2_Witness ==
  /\ incoming.method = "POST"
  /\ incoming.body = "csrf"
  /\ nextAuthReq = incoming
  /\ outgoing.echo = incoming

\* C3: once open-next.config.ts is evaluated, the exported configuration has,
\* apart from buildCommand, exactly the fields of
\* defineCloudflareConfig({incrementalCache: r2IncrementalCache}) with the
\* same values, and its cache selector is the R2 incremental cache.
AdapterConfig == DefineCloudflareConfig("incrementalCache" :> R2IncrementalCache)

C3_PassThrough ==
  configLoaded =>
     /\ DOMAIN config \ {"buildCommand"} = DOMAIN AdapterConfig \ {"buildCommand"}
     /\ \A f \in DOMAIN AdapterConfig \ {"buildCommand"} : config[f] = AdapterConfig[f]
     /\ config["incrementalCache"] = R2IncrementalCache

C3_Witness ==
  /\ configLoaded
  /\ DOMAIN adapterRest = AdapterFields
  /\ config["default"] = adapterRest["default"]
  /\ config["incrementalCache"] = R2IncrementalCache

\* C4: once route.ts is evaluated, the provider list is github then google,
\* each provider's client id and secret are the values of its own two
\* variables, the signing secret is the value of NEXTAUTH_SECRET, and a GET
\* of the providers endpoint reports exactly github and google.
C4_Providers ==
  routeLoaded =>
     /\ Len(options.providers) = 2
     /\ options.providers[1] =
          [id |-> "github", clientId |-> env["GITHUB_ID"],
           clientSecret |-> env["GITHUB_SECRET"]]
     /\ options.providers[2] =
          [id |-> "google", clientId |-> env["GOOGLE_ID"],
           clientSecret |-> env["GOOGLE_SECRET"]]
     /\ options.secret = env["NEXTAUTH_SECRET"]
     /\ (incoming.method = "GET" /\ incoming.path = "providers")
           => outgoing.providers = {"github", "google"}

C4_Witness ==
  /\ routeLoaded
  /\ incoming.method = "GET" /\ incoming.path = "providers"
  /\ outgoing.providers = {"github", "google"}
  /\ \A v \in EnvVars : env[v] # Undefined
  /\ env["GITHUB_ID"] # env["GOOGLE_ID"]
  /\ env["GITHUB_SECRET"] # env["GOOGLE_SECRET"]
\* C1: a build entered through the `build` script runs the chain
\* npm run build -> opennextjs-cloudflare build -> npm run build-local ->
\* next build and nothing else, enters the `build` script once, and every
\* command that was started comes to an end.
BuildChain ==
  <<"npm run build", "opennextjs-cloudflare build", "npm run build-local",
    "next build">>
IsPrefix(s, t) == Len(s) <= Len(t) /\ \A i \in 1..Len(s) : s[i] = t[i]
BuildEnded == stack = <<>> /\ ret # "none" /\ entered["build"] > 0

C1_ChainInv ==
  /\ entered["build"] <= 1
  /\ (stack # <<>> /\ stack[1] = "npm run build") => IsPrefix(stack, BuildChain)
  /\ BuildEnded => entered["build"] = 1 /\ entered["build-local"] = 1

C1_BuildTerminates ==
  /\ []C1_ChainInv
  /\ (stack # <<>>) ~> (stack = <<>>)

C1_Witness ==
  /\ BuildEnded /\ ret = "ok"
  /\ entered["build"] = 1 /\ entered["build-local"] = 1
  /\ OpenNextOutputs \subseteq files[host]
  /\ config["buildCommand"] = "npm run build-local"

C6_MissingBindingFails ==
  /\ (lastDeploy.cache = R2IncrementalCache /\ ~lastDeploy.binding) =>
        /\ lastDeploy.error = "No R2 binding 'NEXT_INC_CACHE_R2_BUCKET' found!"
        /\ ~lastDeploy.deployed
  /\ (lastDeploy.binding /\ lastDeploy.bucket) =>
        lastDeploy.error # "No R2 binding 'NEXT_INC_CACHE_R2_BUCKET' found!"
  /\ lastDeploy.cache = DummyCache =>
        lastDeploy.error # "No R2 binding 'NEXT_INC_CACHE_R2_BUCKET' found!"
  /\ (lastDeploy # NoDeploy /\ lastDeploy.error = "") => lastDeploy.deployed

C6_Witness ==
  /\ lastDeploy.cache = R2IncrementalCache /\ ~lastDeploy.binding
  /\ lastDeploy.error = R2BindingError
  /\ versions = <<>>
  /\ descriptor = WranglerToml /\ buckets = {CacheBucket}

\* C7: in Option A and in Option B, whenever a deploy command has begun the
\* R2 bucket exists, and every bucket created is the one the descriptor binds.
DeployBegun ==
  \/ lastDeploy # NoDeploy
  \/ \E i \in 1..Len(stack) : stack[i] \in DeployCommands \cup {"npm run deploy"}

StoreOf(step) == IF step = "devVars" THEN devVars ELSE secrets

C8_ProvisioningComplete ==
  lastProvision # "none" =>
     \A v \in {"GITHUB_ID", "GITHUB_SECRET", "GOOGLE_ID", "GOOGLE_SECRET",
               "NEXTAUTH_SECRET", "NEXTAUTH_URL"} :
        StoreOf(lastProvision)[v] # Undefined

\* C9: the workflow runs once per push to main and never for another branch;
\* its steps run in the order checkout, setup-node, npm ci, npm run build,
\* deploy; the deploy step runs only after a successful build step; a run
\* whose build failed deploys no version.
MainPushes == {i \in 1..Len(pushLog) : pushLog[i] = "main"}
BuildFailed(r) ==
  \E i \in 1..Len(runs[r].log) :
     runs[r].log[i] = [name |-> "npm run build", result |-> "fail"]
BuildSucceeded(r) ==
  \E i \in 1..Len(runs[r].log) :
     runs[r].log[i] = [name |-> "npm run build", result |-> "ok"]

C9_Workflow ==
  /\ Len(runs) = Cardinality(MainPushes)
  /\ \A r \in 1..Len(runs) :
       /\ Len(runs[r].log) <= 5
       /\ \A i \in 1..Len(runs[r].log) :
            runs[r].log[i].name =
              <<"checkout", "setup-node", "npm ci", "npm run build", "deploy">>[i]
       /\ \A i \in 1..Len(runs[r].log) :
            runs[r].log[i].name = "deploy" =>
               /\ i > 1
               /\ runs[r].log[i - 1] = [name |-> "npm run build", result |-> "ok"]
       /\ BuildFailed(r) =>
            ~\E k \in 1..Len(versions) : versions[k].by = "ci" /\ versions[k].run = r
  /\ (host = "ci" /\ stack # <<>> /\ stack[1] = "wrangler deploy") =>
        BuildSucceeded(CurRun)
  /\ \A k \in 1..Len(versions) : versions[k].by = "ci" => BuildSucceeded(versions[k].run)

C9_Witness ==
  /\ Len(runs) = 2
  /\ pushLog = <<"main", "dev", "main">> \/ pushLog = <<"main", "main">>
  /\ BuildFailed(1)
  /\ runs[2].status = "success"
  /\ \E k \in 1..Len(versions) : versions[k].run = 2

\* C10: in each guide, every callback URL registered with a provider is that
\* environment's NEXTAUTH_URL followed by /api/auth/callback/ and the
\* provider, and the local NEXTAUTH_URL is http://localhost:3000.
C10_CallbackConsistency ==
  /\ \A r \in registered :
       NextAuthUrl(r.env) # Undefined =>
          r.url = NextAuthUrl(r.env) \o "/api/auth/callback/" \o r.provider
  /\ devVars["NEXTAUTH_URL"] \in {Undefined, "http://localhost:3000"}
\* C11: once open-next.config.ts is evaluated, the exported buildCommand is
\* `npm run build-local` whatever defineCloudflareConfig returned, also when
\* its result holds a buildCommand of its own.
C11_OverrideWins ==
  configLoaded => config["buildCommand"] = "npm run build-local"

C11_Witness ==
  /\ configLoaded
  /\ "buildCommand" \in DOMAIN adapterRest
  /\ adapterRest["buildCommand"] # "npm run build-local"
  /\ config["buildCommand"] = "npm run build-local"

\* C12: once the repository's next.config.ts is evaluated, the exported
\* configuration has telemetry { enabled: false } exactly when process.env.CI
\* is a non-empty string; otherwise its only key is outputFileTracingRoot.
CINonEmpty == processEnvCI.t = "string" /\ processEnvCI.s # ""

C12_TelemetryIffCI ==
  (nextConfigLoaded /\ nextConfigFile = "repo") =>
     /\ CINonEmpty <=> "telemetry" \in DOMAIN nextConfig
     /\ CINonEmpty =>
          /\ DOMAIN nextConfig = {"outputFileTracingRoot", "telemetry"}
          /\ nextConfig["telemetry"] = [enabled |-> FALSE]
     /\ ~CINonEmpty => DOMAIN nextConfig = {"outputFileTracingRoot"}

C12_Witness ==
  /\ nextConfigLoaded /\ nextConfigFile = "repo"
  /\ processEnvCI = [t |-> "string", s |-> "false"]
  /\ nextConfig["telemetry"] = [enabled |-> FALSE]

\* C13: once next.config.ts is evaluated, outputFileTracingRoot is __dirname
\* for every value of process.env.CI, with or without the telemetry key.
C13_TracingRoot ==
  nextConfigLoaded =>
     /\ "outputFileTracingRoot" \in DOMAIN nextConfig
     /\ nextConfig["outputFileTracingRoot"] = dirname

C13_Witness ==
  /\ nextConfigLoaded /\ nextConfigFile = "repo"
  /\ "telemetry" \in DOMAIN nextConfig
  /\ dirname = "/home/dev/tinyauth"
  /\ nextConfig["outputFileTracingRoot"] = "/home/dev/tinyauth"
\* C14: in Option A and Option B, a deploy command only ever runs on a host
\* where a build has left .open-next/worker.js and .open-next/assets, every
\* path the descriptor refers to is one the build produces, a workflow run
\* starts without build outputs, and an OpenNext build in progress has
\* cleared the outputs of the build before it.
DeployAtTop == stack # <<>> /\ stack[Len(stack)] \in DeployCommands
BuildInProgress ==
  \E i \in 1..(Len(stack) - 1) : stack[i] = "opennextjs-cloudflare build"
BeforeCIBuild ==
  /\ Running # {} /\ Len(runs[CurRun].log) <= 3
  /\ stack = <<>> /\ ret = "none"

C14_ArtifactsAtDeploy ==
  /\ DeployAtTop =>
       /\ {".open-next/worker.js", ".open-next/assets"} \subseteq files[host]
       /\ DescriptorPaths(descriptor) \subseteq files[host]
  /\ lastDeploy # NoDeploy => lastDeploy.built /\ lastDeploy.error # "build output not found"
  /\ "wrangler.toml" \in project =>
       DescriptorPaths(descriptor) \subseteq {".open-next/worker.js", ".open-next/assets"}
  /\ BeforeCIBuild => files["ci"] = {}
  /\ BuildInProgress =>
       files[host] \cap {".open-next/worker.js", ".open-next/assets"} = {}

C14_Witness ==
  /\ DeployAtTop /\ host = "ci"
  /\ Len(runs) = 2 /\ CurRun = 2
  /\ Len(versions) = 1
  /\ {".open-next/worker.js", ".open-next/assets"} \subseteq files["ci"]
\* C15: in Option A and Option B, whenever a version of the Worker is
\* deployed all six production secrets are set, and the Worker never handles
\* an authentication request with one of them undefined.
Live == Len(versions) > 0

C15_SecretsBeforeServing ==
  /\ Live =>
       \A v \in {"GITHUB_ID", "GITHUB_SECRET", "GOOGLE_ID", "GOOGLE_SECRET",
                 "NEXTAUTH_SECRET", "NEXTAUTH_URL"} : secrets[v] # Undefined
  /\ routeLoaded =>
       \A v \in {"GITHUB_ID", "GITHUB_SECRET", "GOOGLE_ID", "GOOGLE_SECRET",
                 "NEXTAUTH_SECRET", "NEXTAUTH_URL"} : env[v] # Undefined

C15_Witness ==
  /\ Live /\ routeLoaded
  /\ pc.phase = "B" /\ CurStep = "secrets"
  /\ lastProvision # "optionB"
  /\ env["GOOGLE_SECRET"] # Undefined
\* C16: check-worker.sh exits with status 1 exactly when the status of the
\* root URL is not 200, and then it has run no later check; when the status
\* is 200 it runs to "Health check complete!" and exits 0, whichever
\* providers the response names; and the script always comes to its end.
Exited == hcPc = "exited"
Warned ==
  \E i \in 1..Len(output) :
     output[i] \in {"GitHub provider not found", "Google provider not found"}

C16_ExitInv ==
  /\ exitStatus \in {-1, 0, 1}
  /\ Exited <=> exitStatus # -1
  /\ exitStatus = 1 <=> (Exited /\ STATUS # "200")
  /\ exitStatus = 1 =>
       /\ checksRun = {"status"}
       /\ Len(output) = 2
       /\ ~Warned
  /\ (Exited /\ STATUS = "200") =>
       /\ exitStatus = 0
       /\ checksRun = {"status", "time", "providers"}
       /\ Len(output) = 6
       /\ output[6] = "Health check complete!"
  /\ (Exited /\ Warned) => exitStatus = 0

C16_HealthCheck ==
  /\ []C16_ExitInv
  /\ <>Exited

C16_Witness ==
  /\ Exited /\ exitStatus = 0
  /\ STATUS = "200"
  /\ PROVIDERS = {"error"}
  /\ output[4] = "GitHub provider not found"
  /\ output[5] = "Google provider not found"
====
